---- MODULE Spec2Model ----
(***************************************************************************)
(* Model of laba1/color_picker.py: a colour picker whose three panels      *)
(* (RGB, HSV, CMYK) of validated text fields are kept synchronised through *)
(* Qt signals.  Texts are sequences of one-character strings, so that      *)
(* str() and int() are computed and not assumed.  A generic colour         *)
(* (QColor) is a record holding the colour spec it was written in and its  *)
(* 16-bit components, as the toolkit stores it; the conversions between    *)
(* specs are the toolkit's formulas in exact arithmetic.                   *)
(***************************************************************************)
EXTENDS Integers, Sequences, FiniteSets, TLC

(* ------------------------------------------------------------------ *)
(* Bounds of the model                                                  *)
(* ------------------------------------------------------------------ *)
\* number of user events (text changes, edit completions, dialog picks) explored
MaxEvents == 2
\* number of entries of UserTextList the user may type
NumUserTexts == 5
\* number of entries of DialogColorList the dialog may return
NumDialogColors == 4
\* longest text given to the bounds predicate in BoundsSpec
MaxTextLen == 3
\* largest number of panels wired by connect_models in RingSpec
MaxPanels == 5
\* number of sample values per channel in TripSpec
NumSamples == 6
\* number of user events explored call by call in StepSpec
MaxStepEvents == 2

(* ------------------------------------------------------------------ *)
(* Python str() and int() on texts                                      *)
(* ------------------------------------------------------------------ *)
Digits == <<"0", "1", "2", "3", "4", "5", "6", "7", "8", "9">>

IsDigit(ch) == \E i \in 1..10 : Digits[i] = ch

DigitVal(ch) == (CHOOSE i \in 1..10 : Digits[i] = ch) - 1

RECURSIVE NatStr(_)
NatStr(n) == IF n < 10 THEN <<Digits[n + 1]>>
             ELSE NatStr(n \div 10) \o <<Digits[(n % 10) + 1]>>

\* str(n) of a Python int
PyStr(n) == IF n < 0 THEN <<"-">> \o NatStr(0 - n) ELSE NatStr(n)

RECURSIVE LStrip(_)
LStrip(t) == IF t # <<>> /\ Head(t) = " " THEN LStrip(Tail(t)) ELSE t

RECURSIVE RStrip(_)
RStrip(t) == IF t # <<>> /\ t[Len(t)] = " "
             THEN RStrip(SubSeq(t, 1, Len(t) - 1)) ELSE t

\* the digit part of an int literal, scanned left to right: digits, with
\* single underscores allowed between two digits.  prev is "start", "digit"
\* or "under"; acc is the value so far.  Result: [ok, val].
RECURSIVE ScanDigits(_, _, _)
ScanDigits(t, prev, acc) ==
    IF t = <<>> THEN [ok |-> prev = "digit", val |-> acc]
    ELSE IF IsDigit(Head(t))
         THEN ScanDigits(Tail(t), "digit", acc * 10 + DigitVal(Head(t)))
    ELSE IF Head(t) = "_" /\ prev = "digit"
         THEN ScanDigits(Tail(t), "under", acc)
    ELSE [ok |-> FALSE, val |-> 0]

Negated(r) == [ok |-> r.ok, val |-> 0 - r.val]

\* the sign and the digits of a stripped text
ParseSigned(s) ==
    IF s # <<>> /\ Head(s) = "-" THEN Negated(ScanDigits(Tail(s), "start", 0))
    ELSE IF s # <<>> /\ Head(s) = "+" THEN ScanDigits(Tail(s), "start", 0)
    ELSE ScanDigits(s, "start", 0)

\* int(txt): [ok |-> FALSE] stands for ValueError
PyInt(txt) == ParseSigned(RStrip(LStrip(txt)))

(* ------------------------------------------------------------------ *)
(* QColor, the toolkit's generic colour                                 *)
(* ------------------------------------------------------------------ *)
USHRT_MAX == 65535

Max2(x, y) == IF x >= y THEN x ELSE y
Min2(x, y) == IF x <= y THEN x ELSE y

\* qRound(a * b / c) for a, b, c >= 0, c > 0, computed without leaving 32
\* bits: a is split into its low byte al and the rest, t is the rest times 2b
MulDivParts(al, t, b2, c2) ==
    (t \div c2) * 256 + (((t % c2) * 256 + al * b2 + (c2 \div 2)) \div c2)

MulDivRound(a, b, c) == MulDivParts(a % 256, (a \div 256) * (2 * b), 2 * b, 2 * c)

\* qt_div_257: a 16-bit component as an 8-bit channel
Div257(x) == ((x + 128) - ((x + 128) \div 256)) \div 256

InvalidColor == [spec |-> "Invalid", a |-> 0, b |-> 0, c |-> 0, d |-> 0]

In255(x) == 0 <= x /\ x <= 255

\* QColor(r, g, b)
QColorRgb(r, g, b) ==
    IF In255(r) /\ In255(g) /\ In255(b)
    THEN [spec |-> "Rgb", a |-> r * 257, b |-> g * 257, c |-> b * 257, d |-> 0]
    ELSE InvalidColor

\* QColor().setHsv(h, s, v)
QColorSetHsv(h, s, v) ==
    IF h < -1 \/ ~In255(s) \/ ~In255(v) THEN InvalidColor
    ELSE [spec |-> "Hsv",
          a |-> IF h = -1 THEN USHRT_MAX ELSE (h % 360) * 100,
          b |-> s * 257, c |-> v * 257, d |-> 0]

\* QColor().setCmyk(c, m, y, k)
QColorSetCmyk(c, m, y, k) ==
    IF In255(c) /\ In255(m) /\ In255(y) /\ In255(k)
    THEN [spec |-> "Cmyk", a |-> c * 257, b |-> m * 257, c |-> y * 257,
          d |-> k * 257]
    ELSE InvalidColor

RgbRec(r, g, b) == [spec |-> "Rgb", a |-> r, b |-> g, c |-> b, d |-> 0]

HsvRec(h, s, v) == [spec |-> "Hsv", a |-> h, b |-> s, c |-> v, d |-> 0]

CmykRec(c, m, y, k) == [spec |-> "Cmyk", a |-> c, b |-> m, c |-> y, d |-> k]

\* HSV to RGB in sector i of the hue circle, given v and the three mixes
SectorRgb(i, v, p, q, t) ==
    CASE i = 0 -> RgbRec(v, t, p)
      [] i = 1 -> RgbRec(q, v, p)
      [] i = 2 -> RgbRec(p, v, t)
      [] i = 3 -> RgbRec(p, q, v)
      [] i = 4 -> RgbRec(t, p, v)
      [] OTHER -> RgbRec(v, p, q)

\* chromatic HSV to RGB: hue hh in hundredths of a degree, s and v 16-bit.
\* The fraction within the sector is fm / 60 and the saturation s8 / 255.
HsvToRgb(hh, s, v) ==
    SectorRgb(hh \div 6000, v,
              MulDivRound(v, USHRT_MAX - s, USHRT_MAX),
              MulDivRound(v, 15300 - (s \div 257) * ((hh % 6000) \div 100),
                          15300),
              MulDivRound(v, 15300 - (s \div 257) * (60 - (hh % 6000) \div 100),
                          15300))

\* QColor::toRgb
ToRgb(col) ==
    IF col.spec = "Hsv" THEN
        IF col.b = 0 \/ col.a = USHRT_MAX THEN RgbRec(col.c, col.c, col.c)
        ELSE HsvToRgb(IF col.a = 36000 THEN 0 ELSE col.a, col.b, col.c)
    ELSE IF col.spec = "Cmyk" THEN
        RgbRec(MulDivRound(USHRT_MAX - col.a, USHRT_MAX - col.d, USHRT_MAX),
               MulDivRound(USHRT_MAX - col.b, USHRT_MAX - col.d, USHRT_MAX),
               MulDivRound(USHRT_MAX - col.c, USHRT_MAX - col.d, USHRT_MAX))
    ELSE col

\* the hue, in sixths of the circle times delta, of r, g, b with maximum mx
HueNum(r, g, b, mx, delta) ==
    IF r = mx THEN (IF g - b < 0 THEN g - b + 6 * delta ELSE g - b)
    ELSE IF g = mx THEN 2 * delta + (b - r)
    ELSE 4 * delta + (r - g)

\* RGB to HSV, given the largest and the smallest component
RgbToHsv(r, g, b, mx, mn) ==
    IF mx = mn THEN HsvRec(USHRT_MAX, 0, mx)
    ELSE HsvRec(MulDivRound(HueNum(r, g, b, mx, mx - mn), 6000, mx - mn),
                MulDivRound(mx - mn, USHRT_MAX, mx), mx)

Max3(rgb) == Max2(rgb.a, Max2(rgb.b, rgb.c))
Min3(rgb) == Min2(rgb.a, Min2(rgb.b, rgb.c))

HsvOfRgb(rgb) == RgbToHsv(rgb.a, rgb.b, rgb.c, Max3(rgb), Min3(rgb))

\* QColor::toHsv
ToHsv(col) ==
    IF col.spec \in {"Invalid", "Hsv"} THEN col ELSE HsvOfRgb(ToRgb(col))

\* RGB to CMYK, given the largest component
RgbToCmyk(r, g, b, mx) ==
    IF mx = 0 THEN CmykRec(0, 0, 0, USHRT_MAX)
    ELSE CmykRec(MulDivRound(mx - r, USHRT_MAX, mx),
                 MulDivRound(mx - g, USHRT_MAX, mx),
                 MulDivRound(mx - b, USHRT_MAX, mx), USHRT_MAX - mx)

CmykOfRgb(rgb) == RgbToCmyk(rgb.a, rgb.b, rgb.c, Max3(rgb))

\* QColor::toCmyk
ToCmyk(col) ==
    IF col.spec \in {"Invalid", "Cmyk"} THEN col ELSE CmykOfRgb(ToRgb(col))

\* QColor::hue() of a colour in Hsv spec
HueDegrees(h) == IF h = USHRT_MAX THEN -1 ELSE h \div 100

\* the accessor of one channel: QColor::red() ... QColor::black()
Channel(col, key) ==
    CASE key = "red" -> Div257(ToRgb(col).a)
      [] key = "green" -> Div257(ToRgb(col).b)
      [] key = "blue" -> Div257(ToRgb(col).c)
      [] key = "hue" -> HueDegrees(ToHsv(col).a)
      [] key = "saturation" -> Div257(ToHsv(col).b)
      [] key = "value" -> Div257(ToHsv(col).c)
      [] key = "cyan" -> Div257(ToCmyk(col).a)
      [] key = "magenta" -> Div257(ToCmyk(col).b)
      [] key = "yellow" -> Div257(ToCmyk(col).c)
      [] key = "black" -> Div257(ToCmyk(col).d)

(* ------------------------------------------------------------------ *)
(* The colour models and their bounds tables                            *)
(* ------------------------------------------------------------------ *)
\* Final(RGB, HSV, CMYK): the panels in the order the coordinator keeps them
Panels == <<"RGB", "HSV", "CMYK">>

PanelSet == {Panels[i] : i \in 1..Len(Panels)}

\* get_dynamic(cls): the channels of a model, in declaration order
Keys(p) ==
    CASE p = "RGB" -> <<"red", "green", "blue">>
      [] p = "HSV" -> <<"hue", "saturation", "value">>
      [] p = "CMYK" -> <<"cyan", "magenta", "yellow", "black">>

KeySet(p) == {Keys(p)[i] : i \in 1..Len(Keys(p))}

\* the <key>_bounds tables: the range given to int_bounds, and the default
BoundsOf(p, k) ==
    IF p = "HSV" /\ k = "hue" THEN [lo |-> 0, hi |-> 359, default |-> 0]
    ELSE [lo |-> 0, hi |-> 255, default |-> 0]

\* a <= value and value <= b, False when int(val) raised
Within(a, b, r) == r.ok /\ a <= r.val /\ r.val <= b

WithinLoose(a, b, r) == r.ok /\ a <= r.val /\ r.val < b

\* int_bounds with the upper bound excluded
IntBoundsLoose(a, b, txt) == WithinLoose(a, b, PyInt(txt))

\* int_bounds(a, b)(val)
IntBounds(a, b, txt) == Within(a, b, PyInt(txt))

\* bounds.bounder(txt) of the field k of panel p
Bounder(p, k, txt) == IntBounds(BoundsOf(p, k).lo, BoundsOf(p, k).hi, txt)

\* bounds.converter(txt), applied to texts the bounder accepted
Converter(txt) == PyInt(txt).val

\* get_color handing out every colour converted to RGB
ModelGetColorAsRgb(p, v) ==
    CASE p = "RGB" -> QColorRgb(v["red"], v["green"], v["blue"])
      [] p = "HSV" -> ToRgb(QColorSetHsv(v["hue"], v["saturation"], v["value"]))
      [] p = "CMYK" -> ToRgb(QColorSetCmyk(v["cyan"], v["magenta"],
                                            v["yellow"], v["black"]))

\* cls(**kwargs).get_color(): the generic colour of a model's channel values
ModelGetColor(p, v) ==
    CASE p = "RGB" -> QColorRgb(v["red"], v["green"], v["blue"])
      [] p = "HSV" -> QColorSetHsv(v["hue"], v["saturation"], v["value"])
      [] p = "CMYK" -> QColorSetCmyk(v["cyan"], v["magenta"], v["yellow"],
                                      v["black"])

\* cls.wrap_color(color): the channel values of a model for a generic colour
WrapColor(p, col) == [k \in KeySet(p) |-> Channel(col, k)]

\* change_label_color: the rgb(...) triple written to the swatch's style
LabelOf(col) == <<Channel(col, "red"), Channel(col, "green"),
                  Channel(col, "blue")>>

\* QColor("magenta")
Magenta == QColorRgb(255, 0, 255)

(* ------------------------------------------------------------------ *)
(* The synchronisation ring                                             *)
(* ------------------------------------------------------------------ *)
\* connect_models without the two connections closing the ring
ConnectModelsNoWrap(n) ==
    [j \in 1..(2 * (n - 1)) |->
        IF j % 2 = 1 THEN [src |-> (j + 1) \div 2, dst |-> (j + 1) \div 2 + 1]
        ELSE [src |-> j \div 2 + 1, dst |-> j \div 2]]
    \o [i \in 1..n |-> [src |-> i, dst |-> 0]]

\* connect_models also connecting every valuer to its own update_color
ConnectModelsSelf(n) ==
    [j \in 1..(2 * (n - 1)) |->
        IF j % 2 = 1 THEN [src |-> (j + 1) \div 2, dst |-> (j + 1) \div 2 + 1]
        ELSE [src |-> j \div 2 + 1, dst |-> j \div 2]]
    \o <<[src |-> n, dst |-> 1], [src |-> 1, dst |-> n]>>
    \o [i \in 1..n |-> [src |-> i, dst |-> i]]
    \o [i \in 1..n |-> [src |-> i, dst |-> 0]]

\* connect_models on n valuers: the connections made, in order.  Valuers are
\* numbered 1..n; dst 0 is the coordinator's change_color_internally.
ConnectModels(n) ==
    [j \in 1..(2 * (n - 1)) |->
        IF j % 2 = 1 THEN [src |-> (j + 1) \div 2, dst |-> (j + 1) \div 2 + 1]
        ELSE [src |-> j \div 2 + 1, dst |-> j \div 2]]
    \o <<[src |-> n, dst |-> 1], [src |-> 1, dst |-> n]>>
    \o [i \in 1..n |-> [src |-> i, dst |-> 0]]

\* the slots connected to valuer i's color_changed, in connection order
Targets(conns) == [j \in 1..Len(conns) |-> conns[j].dst]

SlotsOf(n, i) == Targets(SelectSeq(ConnectModels(n), LAMBDA c : c.src = i))

PanelIndex(p) == CHOOSE i \in 1..Len(Panels) : Panels[i] = p

(* ------------------------------------------------------------------ *)
(* Fields, panels and the coordinator.  A world W is the record of the  *)
(* program's state a handler works on: fld, color, label, blocked, the  *)
(* counts upd, emits, muted, coord of what ran during the event, and    *)
(* wired, whether connect_models has run.                               *)
(* ------------------------------------------------------------------ *)
\* edit.max_length
MaxLength == 5

Truncate(txt) == SubSeq(txt, 1, Min2(Len(txt), MaxLength))

\* on_text_changed falling back to the default on a rejected text
OnTextChangedResets(e, p, k, txt) ==
    IF Bounder(p, k, txt)
    THEN [e EXCEPT !.bounded = TRUE, !.value = Converter(txt),
                   !.style = "black"]
    ELSE [e EXCEPT !.bounded = FALSE, !.value = BoundsOf(p, k).default,
                   !.style = "red"]

\* on_text_changed accepting a text without committing its value
OnTextChangedKeepsValue(e, p, k, txt) ==
    IF Bounder(p, k, txt)
    THEN [e EXCEPT !.bounded = TRUE, !.style = "black"]
    ELSE [e EXCEPT !.bounded = FALSE, !.style = "red"]

\* BoundedLineEdit.on_text_changed, on the field record e
OnTextChanged(e, p, k, txt) ==
    IF Bounder(p, k, txt)
    THEN [e EXCEPT !.bounded = TRUE, !.value = Converter(txt),
                   !.style = "black"]
    ELSE [e EXCEPT !.bounded = FALSE, !.style = "red"]

\* Valuer.get_color
GetColor(f, p) == ModelGetColor(p, [k \in KeySet(p) |-> f[p][k].value])

(* A call is a record naming a handler and its arguments.  A handler maps   *)
(* the world to [w, calls]: the world after its own assignments, and the    *)
(* calls it makes, in order.  Run executes calls as the single thread does: *)
(* a call's own calls run to completion before the caller's next one.       *)
Call(op, p, k, txt, val, col) ==
    [op |-> op, p |-> p, k |-> k, txt |-> txt, val |-> val, col |-> col]

CallField(op, p, k) == Call(op, p, k, <<>>, 0, InvalidColor)
CallText(op, p, k, txt) == Call(op, p, k, txt, 0, InvalidColor)
CallColor(op, p, c) == Call(op, p, "", <<>>, 0, c)

Does(W, calls) == [w |-> W, calls |-> calls]

\* Final.change_label_color
ChangeLabelColor(W, c) == Does([W EXCEPT !.label = LabelOf(c)], <<>>)

\* change_color_internally pushing the colour back into every panel
ChangeColorInternallyPushes(W, c) ==
    Does([W EXCEPT !.color = c, !.coord = @ + 1],
         [j \in 1..Len(Panels) |-> CallColor("update_color", Panels[j], c)]
         \o <<CallColor("change_label_color", "", c)>>)

\* Final.change_color_internally
ChangeColorInternally(W, c) ==
    Does([W EXCEPT !.color = c, !.coord = @ + 1],
         <<CallColor("change_label_color", "", c)>>)

\* the calls of the slots of one emission
SlotCalls(slots, c) ==
    [j \in 1..Len(slots) |->
        IF slots[j] = 0 THEN CallColor("change_color_internally", "", c)
        ELSE CallColor("update_color", Panels[slots[j]], c)]

\* color_changed.emit(c) delivered whether or not the signals are blocked
EmitUnblocked(W, p, c) ==
    Does([W EXCEPT !.emits[p] = @ + 1],
         SlotCalls(IF W.wired THEN SlotsOf(Len(Panels), PanelIndex(p))
                   ELSE <<>>, c))

\* color_changed.emit(c) of panel p: nothing while p's signals are blocked,
\* else the connected slots in connection order; none is connected before
\* connect_models has run
Emit(W, p, c) ==
    IF W.blocked[p] THEN Does([W EXCEPT !.muted[p] = @ + 1], <<>>)
    ELSE Does([W EXCEPT !.emits[p] = @ + 1],
              SlotCalls(IF W.wired THEN SlotsOf(Len(Panels), PanelIndex(p))
                        ELSE <<>>, c))

\* Valuer._on_text_changed
ValuerOnTextChanged(W, p) ==
    Does(W, <<CallColor("emit", p, GetColor(W.fld, p))>>)

\* the field's own slot of textChanged
FieldOnTextChanged(W, p, k, txt) ==
    Does([W EXCEPT !.fld[p][k] = OnTextChanged(@, p, k, txt)], <<>>)

\* textChanged with the panel's slot run before the field's own
TextChangedPanelFirst(W, p, k, txt) ==
    Does(W, <<CallField("_on_text_changed", p, k),
              CallText("on_text_changed", p, k, txt)>>)

\* the textChanged signal of field k of panel p: the field's own slot, then
\* the panel's, in the order they were connected
TextChanged(W, p, k, txt) ==
    Does(W, <<CallText("on_text_changed", p, k, txt),
              CallField("_on_text_changed", p, k)>>)

\* the text property being set: textChanged only if the text differs
SetText(W, p, k, txt) ==
    IF W.fld[p][k].text = Truncate(txt) THEN Does(W, <<>>)
    ELSE Does([W EXCEPT !.fld[p][k].text = Truncate(txt)],
              <<CallText("textChanged", p, k, Truncate(txt))>>)

\* set_value committing the value without displaying it
SetValueKeepsText(W, p, k, val) ==
    Does([W EXCEPT !.fld[p][k].value = val], <<>>)

\* BoundedLineEdit.set_value
SetValue(W, p, k, val) ==
    Does([W EXCEPT !.fld[p][k].value = val],
         <<CallText("set_text", p, k, PyStr(val))>>)

\* self.style_sheet = ... of a field
SetStyle(W, p, k, style) == Does([W EXCEPT !.fld[p][k].style = style], <<>>)

\* self.block_signals(flag) of a valuer
BlockSignals(W, p, flag) == Does([W EXCEPT !.blocked[p] = flag], <<>>)

\* edit.set_value(getattr(model_color, key)) for every field, in order
SetValueCalls(p, mc) ==
    [j \in 1..Len(Keys(p)) |->
        Call("set_value", p, Keys(p)[j], <<>>, mc[Keys(p)[j]], InvalidColor)]

\* update_color leaving the valuer's signals blocked
UpdateColorStaysBlocked(W, p, c) ==
    Does([W EXCEPT !.upd[p] = @ + 1],
         <<CallField("block_signals_true", p, "")>>
         \o SetValueCalls(p, WrapColor(p, c)))

\* Valuer.update_color
UpdateColor(W, p, c) ==
    Does([W EXCEPT !.upd[p] = @ + 1],
         <<CallField("block_signals_true", p, "")>>
         \o SetValueCalls(p, WrapColor(p, c))
         \o <<CallField("block_signals_false", p, "")>>)

\* BoundedLineEdit.on_text_finished
OnTextFinished(W, p, k) ==
    Does(W, <<CallText("set_text", p, k, PyStr(W.fld[p][k].value)),
              CallText("set_style", p, k, <<"black">>)>>)

\* pick_color handing the colour to change_color_internally
PickColorViaCoordinator(W, c) ==
    Does(W, [j \in 1..Len(Panels) |-> CallColor("update_color", Panels[j], c)]
            \o <<CallColor("change_color_internally", "", c)>>)

\* Final.pick_color, the dialog having returned c
PickColorWith(W, c) ==
    Does(W, [j \in 1..Len(Panels) |-> CallColor("update_color", Panels[j], c)]
            \o <<CallColor("change_label_color", "", c)>>)

\* the handler a call names, applied to its arguments
Handle(W, f) ==
    CASE f.op = "textChanged" -> TextChanged(W, f.p, f.k, f.txt)
      [] f.op = "on_text_changed" -> FieldOnTextChanged(W, f.p, f.k, f.txt)
      [] f.op = "_on_text_changed" -> ValuerOnTextChanged(W, f.p)
      [] f.op = "emit" -> Emit(W, f.p, f.col)
      [] f.op = "update_color" -> UpdateColor(W, f.p, f.col)
      [] f.op = "block_signals_true" -> BlockSignals(W, f.p, TRUE)
      [] f.op = "block_signals_false" -> BlockSignals(W, f.p, FALSE)
      [] f.op = "set_value" -> SetValue(W, f.p, f.k, f.val)
      [] f.op = "set_text" -> SetText(W, f.p, f.k, f.txt)
      [] f.op = "set_style" -> SetStyle(W, f.p, f.k, f.txt[1])
      [] f.op = "on_text_finished" -> OnTextFinished(W, f.p, f.k)
      [] f.op = "change_color_internally" -> ChangeColorInternally(W, f.col)
      [] f.op = "change_label_color" -> ChangeLabelColor(W, f.col)
      [] f.op = "pick_color" -> PickColorWith(W, f.col)

\* the pending calls run until none is left
RECURSIVE Run(_, _)
RECURSIVE Continue(_, _)
Run(W, calls) ==
    IF calls = <<>> THEN W ELSE Continue(Handle(W, Head(calls)), Tail(calls))

\* the calls a handler made run before the rest of its caller's
Continue(r, rest) == Run(r.w, r.calls \o rest)

(* ------------------------------------------------------------------ *)
(* State                                                                *)
(* ------------------------------------------------------------------ *)
VARIABLES
    fld,        \* fld[p][k]: value, text, bounded, style of a BoundedLineEdit
    color,      \* Final.color
    label,      \* the rgb triple in Final.label's style sheet (the swatch)
    blocked,    \* blocked[p]: signals of Valuer p are blocked
    upd,        \* upd[p]: runs of p.update_color during the last event
    emits,      \* emits[p]: color_changed emissions of p delivered during it
    muted,      \* muted[p]: color_changed emissions of p that were blocked
    coord,      \* runs of change_color_internally during the last event
    last,       \* the last user event
    events,     \* number of user events so far
    bText,      \* BoundsSpec: the text given to a bounds predicate
    bField,     \* BoundsSpec: the field <<p, k>> whose predicate is applied
    bVerdict,   \* BoundsSpec: "none", "accept" or "reject"
    rN,         \* RingSpec: number of valuers wired by connect_models
    rShown,     \* RingSpec: rShown[i], the colour valuer i displays
    rUpd,       \* RingSpec: rUpd[i], runs of i.update_color in the last edit
    rSrc,       \* RingSpec: the valuer edited last, 0 before any edit
    tModel,     \* TripSpec: the colour model of the variant
    tVals,      \* TripSpec: the variant's channel values
    tBack,      \* TripSpec: wrap_color(get_color()), <<>> before it is taken
    stack       \* StepSpec: the calls pending in the running event

progVars == <<fld, color, label, blocked, upd, emits, muted, coord, last,
              events>>
boundsVars == <<bText, bField, bVerdict>>
ringVars == <<rN, rShown, rUpd, rSrc>>
tripVars == <<tModel, tVals, tBack>>
vars == <<progVars, boundsVars, ringVars, tripVars, stack>>

ZeroCount == [p \in PanelSet |-> 0]

\* the world before an event: the state, with the event's counts at zero
World == [fld |-> fld, color |-> color, label |-> label, blocked |-> blocked,
          upd |-> ZeroCount, emits |-> ZeroCount, muted |-> ZeroCount,
          coord |-> 0, wired |-> TRUE]

Becomes(W) ==
    /\ fld' = W.fld
    /\ color' = W.color
    /\ label' = W.label
    /\ blocked' = W.blocked
    /\ upd' = W.upd
    /\ emits' = W.emits
    /\ muted' = W.muted
    /\ coord' = W.coord

(* ------------------------------------------------------------------ *)
(* What the user can do                                                 *)
(* ------------------------------------------------------------------ *)
UserTextList ==
    << <<"0">>, <<"2", "5", "5">>, <<"2", "5", "6">>, <<"a">>, <<"0", "7">>,
       <<>>, <<"-", "1">>, <<"3", "5", "9">>, <<"3", "6", "0">>,
       <<" ", "7">>, <<"1", "_", "0">> >>

UserTexts ==
    {UserTextList[i] : i \in 1..Min2(NumUserTexts, Len(UserTextList))}

\* what QColorDialog.get_color() can return; the invalid colour is the
\* "no selection" result of a cancelled dialog
DialogColorList ==
    <<InvalidColor, QColorRgb(255, 255, 255), QColorRgb(255, 0, 0),
      QColorRgb(0, 0, 0), QColorRgb(128, 128, 128), QColorRgb(10, 200, 30)>>

DialogColors ==
    {DialogColorList[i] : i \in 1..Min2(NumDialogColors, Len(DialogColorList))}

NoField == [value |-> 0, text |-> <<>>, bounded |-> TRUE, style |-> ""]

NoEvent == [op |-> "init", panel |-> "", key |-> "", text |-> <<>>,
            col |-> InvalidColor, before |-> NoField]

(* ------------------------------------------------------------------ *)
(* Construction                                                         *)
(* ------------------------------------------------------------------ *)
\* BoundedLineEdit.__init__: the default is committed and shown; setting the
\* text runs the field's own on_text_changed
NewField(p, k) ==
    OnTextChanged([value |-> BoundsOf(p, k).default, bounded |-> TRUE,
                   text |-> PyStr(BoundsOf(p, k).default), style |-> ""],
                  p, k, PyStr(BoundsOf(p, k).default))

\* Final.__init__: every valuer is built and given QColor("magenta"), before
\* connect_models runs
Constructed ==
    Run([fld |-> [p \in PanelSet |-> [k \in KeySet(p) |-> NewField(p, k)]],
         color |-> Magenta, label |-> LabelOf(Magenta),
         blocked |-> [p \in PanelSet |-> FALSE],
         upd |-> ZeroCount, emits |-> ZeroCount, muted |-> ZeroCount,
         coord |-> 0, wired |-> FALSE],
        [j \in 1..Len(Panels) |-> CallColor("update_color", Panels[j], Magenta)])

ProgInit ==
    /\ fld = Constructed.fld
    /\ color = Constructed.color
    /\ label = Constructed.label
    /\ blocked = Constructed.blocked
    /\ upd = ZeroCount
    /\ emits = ZeroCount
    /\ muted = ZeroCount
    /\ coord = 0
    /\ last = NoEvent
    /\ events = 0

BoundsIdle ==
    /\ bText = <<>>
    /\ bField = <<"RGB", "red">>
    /\ bVerdict = "none"

RingIdle ==
    /\ rN = Len(Panels)
    /\ rShown = [i \in 1..Len(Panels) |-> 0]
    /\ rUpd = [i \in 1..Len(Panels) |-> 0]
    /\ rSrc = 0

TripIdle ==
    /\ tModel = "RGB"
    /\ tVals = [k \in KeySet("RGB") |-> 0]
    /\ tBack = <<>>

StepIdle == stack = <<>>

Init == ProgInit /\ BoundsIdle /\ RingIdle /\ TripIdle /\ StepIdle

(* ------------------------------------------------------------------ *)
(* Events of the program                                                *)
(* ------------------------------------------------------------------ *)
\* the user changes the text of field k of panel p to txt
UserEdit(p, k, txt) ==
    /\ events < MaxEvents
    /\ Len(txt) <= MaxLength
    /\ txt # fld[p][k].text
    /\ Becomes(Run([World EXCEPT !.fld[p][k].text = txt],
                   <<CallText("textChanged", p, k, txt)>>))
    /\ last' = [op |-> "text", panel |-> p, key |-> k, text |-> txt,
                col |-> InvalidColor, before |-> fld[p][k]]
    /\ events' = events + 1
    /\ UNCHANGED <<boundsVars, ringVars, tripVars, stack>>

\* editingFinished of field k of panel p
EditingFinished(p, k) ==
    /\ events < MaxEvents
    /\ Becomes(Run(World, <<CallField("on_text_finished", p, k)>>))
    /\ last' = [op |-> "finished", panel |-> p, key |-> k, text |-> <<>>,
                col |-> InvalidColor, before |-> fld[p][k]]
    /\ events' = events + 1
    /\ UNCHANGED <<boundsVars, ringVars, tripVars, stack>>

\* the pick button is clicked and the dialog returns c
PickColor(c) ==
    /\ events < MaxEvents
    /\ Becomes(Run(World, <<CallColor("pick_color", "", c)>>))
    /\ last' = [op |-> "pick", panel |-> "", key |-> "", text |-> <<>>,
                col |-> c, before |-> NoField]
    /\ events' = events + 1
    /\ UNCHANGED <<boundsVars, ringVars, tripVars, stack>>

Next ==
    \/ \E p \in PanelSet : \E k \in KeySet(p) : \E txt \in UserTexts :
          UserEdit(p, k, txt)
    \/ \E p \in PanelSet : \E k \in KeySet(p) : EditingFinished(p, k)
    \/ \E c \in DialogColors : PickColor(c)

Spec == Init /\ [][Next]_vars

(* ------------------------------------------------------------------ *)
(* BoundsSpec: a bounds predicate applied to a text                     *)
(* ------------------------------------------------------------------ *)
Alphabet == {"0", "2", "3", "5", "6", "9", "-", "+", "a", " ", "_"}

Texts == UNION {[1..m -> Alphabet] : m \in 0..Min2(MaxTextLen, MaxLength)}

FieldIds == UNION {{<<p, k>> : k \in KeySet(p)} : p \in PanelSet}

BoundsInit ==
    /\ ProgInit
    /\ RingIdle
    /\ TripIdle
    /\ StepIdle
    /\ bText \in Texts
    /\ bField \in FieldIds
    /\ bVerdict = "none"

\* the field's bounder is called on the text
ApplyBounder ==
    /\ bVerdict = "none"
    /\ bVerdict' = IF Bounder(bField[1], bField[2], bText) THEN "accept"
                   ELSE "reject"
    /\ UNCHANGED <<progVars, ringVars, tripVars, stack, bText, bField>>

BoundsNext == ApplyBounder

BoundsSpec == BoundsInit /\ [][BoundsNext]_vars

(* ------------------------------------------------------------------ *)
(* RingSpec: connect_models on any number of valuers.  A valuer is      *)
(* reduced to the colour it displays; colours are tokens.               *)
(* ------------------------------------------------------------------ *)
RingColors == {1, 2, 3}

RingInit ==
    /\ ProgInit
    /\ BoundsIdle
    /\ TripIdle
    /\ StepIdle
    /\ rN \in 2..MaxPanels
    /\ rShown = [i \in 1..rN |-> 0]
    /\ rUpd = [i \in 1..rN |-> 0]
    /\ rSrc = 0

\* the slots of one emission run in order; update_color of valuer dst shows
\* c there and, its signals being blocked meanwhile, emits nothing further
RECURSIVE RingRunSlots(_, _, _)
RingRunSlots(R, slots, c) ==
    IF slots = <<>> THEN R
    ELSE RingRunSlots(
            IF Head(slots) = 0 THEN R
            ELSE [R EXCEPT !.shown[Head(slots)] = c,
                           !.upd[Head(slots)] = @ + 1],
            Tail(slots), c)

RingBecomes(R) == rShown' = R.shown /\ rUpd' = R.upd

\* the user edits valuer i, which now holds colour c and emits color_changed
RingEdit(i, c) ==
    /\ RingBecomes(RingRunSlots([shown |-> [rShown EXCEPT ![i] = c],
                                 upd |-> [j \in 1..rN |-> 0]],
                                SlotsOf(rN, i), c))
    /\ rSrc' = i
    /\ UNCHANGED <<progVars, boundsVars, tripVars, stack, rN>>

RingNext == \E i \in 1..rN : \E c \in RingColors : RingEdit(i, c)

RingSpec == RingInit /\ [][RingNext]_vars

(* ------------------------------------------------------------------ *)
(* TripSpec: a variant taken to the generic colour and back             *)
(* ------------------------------------------------------------------ *)
\* the i-th of NumSamples values spread over a channel's declared range,
\* both ends included
SampleValue(p, k, i) ==
    BoundsOf(p, k).lo
        + (i * (BoundsOf(p, k).hi - BoundsOf(p, k).lo)) \div (NumSamples - 1)

\* the variants of a model whose channels hold sample values
Variants(p) ==
    {[k \in KeySet(p) |-> SampleValue(p, k, ix[k])] :
     ix \in [KeySet(p) -> 0..(NumSamples - 1)]}

TripInit ==
    /\ ProgInit
    /\ BoundsIdle
    /\ RingIdle
    /\ StepIdle
    /\ tModel \in PanelSet
    /\ tVals \in Variants(tModel)
    /\ tBack = <<>>

\* cls.wrap_color(variant.get_color())
RoundTrip ==
    /\ tBack = <<>>
    /\ tBack' = WrapColor(tModel, ModelGetColor(tModel, tVals))
    /\ UNCHANGED <<progVars, boundsVars, ringVars, stack, tModel, tVals>>

TripNext == RoundTrip

TripSpec == TripInit /\ [][TripNext]_vars

(* ------------------------------------------------------------------ *)
(* StepSpec: the program with every handler call a step of its own.     *)
(* An event puts its first call on the stack; StepCall runs the call on *)
(* top and puts the calls it makes in its place, as Run does at once.   *)
(* ------------------------------------------------------------------ *)
StepInit == Init

\* the state a running handler works on, the event's counts included
Current == [fld |-> fld, color |-> color, label |-> label,
            blocked |-> blocked, upd |-> upd, emits |-> emits,
            muted |-> muted, coord |-> coord, wired |-> TRUE]

\* an event arrives when no handler runs
Idle == stack = <<>> /\ events < MaxStepEvents

BeginEdit(p, k, txt) ==
    /\ Idle
    /\ Len(txt) <= MaxLength
    /\ txt # fld[p][k].text
    /\ Becomes([World EXCEPT !.fld[p][k].text = txt])
    /\ stack' = <<CallText("textChanged", p, k, txt)>>
    /\ last' = [op |-> "text", panel |-> p, key |-> k, text |-> txt,
                col |-> InvalidColor, before |-> fld[p][k]]
    /\ events' = events + 1
    /\ UNCHANGED <<boundsVars, ringVars, tripVars>>

BeginFinished(p, k) ==
    /\ Idle
    /\ Becomes(World)
    /\ stack' = <<CallField("on_text_finished", p, k)>>
    /\ last' = [op |-> "finished", panel |-> p, key |-> k, text |-> <<>>,
                col |-> InvalidColor, before |-> fld[p][k]]
    /\ events' = events + 1
    /\ UNCHANGED <<boundsVars, ringVars, tripVars>>

BeginPick(c) ==
    /\ Idle
    /\ Becomes(World)
    /\ stack' = <<CallColor("pick_color", "", c)>>
    /\ last' = [op |-> "pick", panel |-> "", key |-> "", text |-> <<>>,
                col |-> c, before |-> NoField]
    /\ events' = events + 1
    /\ UNCHANGED <<boundsVars, ringVars, tripVars>>

\* the state a handler leaves, its calls put before its caller's remaining
StepTo(r) ==
    /\ Becomes(r.w)
    /\ stack' = r.calls \o Tail(stack)

\* the call on top of the stack runs
StepCall ==
    /\ stack # <<>>
    /\ \E r \in {Handle(Current, Head(stack))} : StepTo(r)
    /\ UNCHANGED <<last, events, boundsVars, ringVars, tripVars>>

StepNext ==
    \/ \E p \in PanelSet : \E k \in KeySet(p) : \E txt \in UserTexts :
          BeginEdit(p, k, txt)
    \/ \E p \in PanelSet : \E k \in KeySet(p) : BeginFinished(p, k)
    \/ \E c \in DialogColors : BeginPick(c)
    \/ StepCall

\* the GUI thread runs a handler to its end once it is called: a pending
\* call is eventually run.  Nothing obliges the user to act.
StepSpec == StepInit /\ [][StepNext]_vars /\ WF_vars(StepCall)

(* ------------------------------------------------------------------ *)
(* Properties                                                           *)
(* ------------------------------------------------------------------ *)
Others(p) == PanelSet \ {p}

\* field k of panel q holds and displays val
Shows(q, k, val) == fld[q][k].value = val /\ fld[q][k].text = PyStr(val)

\* panel q holds and displays the channels of colour c
PanelShows(q, c) == \A k \in KeySet(q) : Shows(q, k, WrapColor(q, c)[k])

IsValid(q, k) == fld[q][k].bounded /\ fld[q][k].style = "black"

\* the last event was a text change by the user
WasUserEdit == last.op = "text"

\* C1: a text change by the user runs update_color exactly once on each of
\* the other two panels and never on the panel edited, runs the
\* coordinator's change_color_internally exactly once, and no panel that
\* received the colour emits color_changed.
C1_OneRoundPerEdit ==
    WasUserEdit =>
        /\ upd[last.panel] = 0
        /\ \A q \in Others(last.panel) : upd[q] = 1 /\ emits[q] = 0
        /\ emits[last.panel] = 1
        /\ coord = 1

C1_Witness ==
    /\ WasUserEdit
    /\ last.panel = "HSV"
    /\ upd = [p \in PanelSet |-> IF p = "HSV" THEN 0 ELSE 1]
    /\ coord = 1
    /\ muted["RGB"] > 0

\* C2: when the dialog is cancelled (it returns the invalid colour),
\* pick_color changes no field, nor the swatch, nor the recorded colour.
C2_CancelIsNoOp ==
    [][(events' = events + 1 /\ last'.op = "pick" /\ last'.col = InvalidColor)
        => (fld' = fld /\ label' = label /\ color' = color)]_vars

\* C3: after update_color(c) has run on a panel (here: on every panel, by a
\* pick of c), every field of the panel holds the channel of wrap_color(c),
\* displays its string form and is valid, whatever the colour c.
C3_ExternalColorValid ==
    last.op = "pick" =>
        \A p \in PanelSet : \A k \in KeySet(p) :
            Shows(p, k, WrapColor(p, last.col)[k]) /\ IsValid(p, k)

\* C4: the committed value of every field lies in its channel's declared
\* range: 0..359 for the HSV hue, 0..255 for every other channel.
C4_ValuesInRange ==
    \A p \in PanelSet : \A k \in KeySet(p) :
        /\ 0 <= fld[p][k].value
        /\ fld[p][k].value <= (IF p = "HSV" /\ k = "hue" THEN 359 ELSE 255)

\* the colour of the panel edited last, composed from the committed values
\* of its fields, the edited field contributing the value it had before
ColorWithOld ==
    ModelGetColor(last.panel,
                  [k \in KeySet(last.panel) |->
                      IF k = last.key THEN last.before.value
                      ELSE fld[last.panel][k].value])

WasRejectedEdit ==
    WasUserEdit /\ ~Bounder(last.panel, last.key, last.text)

\* C5: a text the bounds predicate rejects leaves the field invalid with the
\* alert border and its committed value unchanged; the panel still emits,
\* and the other panels show the colour composed from the committed values.
C5_RejectedEditPropagates ==
    WasRejectedEdit =>
        /\ ~fld[last.panel][last.key].bounded
        /\ fld[last.panel][last.key].style = "red"
        /\ fld[last.panel][last.key].value = last.before.value
        /\ fld[last.panel][last.key].text = last.text
        /\ emits[last.panel] = 1
        /\ \A q \in Others(last.panel) :
              upd[q] = 1 /\ PanelShows(q, ColorWithOld)

C5_Witness ==
    /\ WasRejectedEdit
    /\ last.panel = "RGB"
    /\ last.key = "green"
    /\ last.text = <<"2", "5", "6">>
    /\ fld["RGB"]["green"].style = "red"
    /\ fld["RGB"]["red"].value = 0
    /\ PanelShows("CMYK", QColorRgb(0, 0, 255))

\* C6: after a text change by the user in a panel, every other panel holds
\* and displays, field by field, the channels of the colour composed from
\* the edited panel's committed values.
C6_SiblingsShowEditedColor ==
    WasUserEdit =>
        \A q \in Others(last.panel) : PanelShows(q, GetColor(fld, last.panel))

C6_Witness ==
    /\ WasUserEdit
    /\ last.panel = "HSV"
    /\ Bounder(last.panel, last.key, last.text)
    /\ fld[last.panel][last.key].value # last.before.value
    /\ PanelShows("RGB", GetColor(fld, "HSV"))
    /\ PanelShows("CMYK", GetColor(fld, "HSV"))

\* C7: with any number n >= 2 of valuers wired by connect_models, an edit
\* in one valuer runs update_color on every one of the other n - 1.
C7_EditReachesAll ==
    rSrc # 0 => \A j \in (1..rN) \ {rSrc} : rUpd[j] >= 1

\* C8: after editingFinished the field displays the string form of its
\* committed value and is valid: flag true and neutral border.
C8_FinishedIsValid ==
    last.op = "finished" =>
        /\ fld[last.panel][last.key].text =
              PyStr(fld[last.panel][last.key].value)
        /\ IsValid(last.panel, last.key)

\* C9: between events, a field's border is red exactly when its validity
\* flag is false and black exactly when it is true.
C9_BorderMatchesFlag ==
    \A p \in PanelSet : \A k \in KeySet(p) :
        /\ fld[p][k].style = "red" <=> ~fld[p][k].bounded
        /\ fld[p][k].style = "black" <=> fld[p][k].bounded

\* number of digits of b at the positions after i
DigitsAfter(b, i) == Cardinality({j \in (i + 1)..Len(b) : IsDigit(b[j])})

RECURSIVE Pow10(_)
Pow10(n) == IF n = 0 THEN 1 ELSE 10 * Pow10(n - 1)

RECURSIVE WeightedSum(_, _)
WeightedSum(b, i) ==
    IF i > Len(b) THEN 0
    ELSE (IF IsDigit(b[i]) THEN DigitVal(b[i]) * Pow10(DigitsAfter(b, i))
          ELSE 0) + WeightedSum(b, i + 1)

\* b is a run of decimal digits, possibly grouped by single underscores
IsDigitRun(b) ==
    /\ b # <<>>
    /\ IsDigit(b[1])
    /\ IsDigit(b[Len(b)])
    /\ \A i \in 1..Len(b) : IsDigit(b[i]) \/ b[i] = "_"
    /\ \A i \in 1..(Len(b) - 1) : ~(b[i] = "_" /\ b[i + 1] = "_")

\* t is an integer text denoting a number in lo..hi: blanks, an optional
\* sign, a digit run whose value, signed, lies in the range, blanks
DenotesWithin(t, lo, hi) ==
    \E i \in 1..Len(t) : \E j \in i..Len(t) :
        /\ \A x \in 1..(i - 1) : t[x] = " "
        /\ \A x \in (j + 1)..Len(t) : t[x] = " "
        /\ LET core == SubSeq(t, i, j)
               b == IF core[1] \in {"+", "-"} THEN Tail(core) ELSE core
               n == IF core[1] = "-" THEN 0 - WeightedSum(b, 1)
                    ELSE WeightedSum(b, 1)
           IN IsDigitRun(b) /\ lo <= n /\ n <= hi

\* C10: a channel's bounds predicate accepts exactly the texts denoting an
\* integer n with 0 <= n <= hi, where hi is 359 for the HSV hue and 255 for
\* every other channel; the empty text, texts that are no integer and
\* integers outside the range are rejected.
C10_BounderAcceptsExactlyRange ==
    bVerdict # "none" =>
        (bVerdict = "accept" <=>
            DenotesWithin(bText, 0,
                          IF bField = <<"HSV", "hue">> THEN 359 ELSE 255))

C10_Witness ==
    /\ bVerdict = "accept"
    /\ bField = <<"HSV", "hue">>
    /\ bText = <<"3", "5", "9">>

\* C11: for every variant with channel values in the declared ranges,
\* wrap_color(variant.get_color()) is the variant again.
C11_RoundTripLossless == tBack # <<>> => tBack = tVals

C11_Witness ==
    /\ tModel = "HSV"
    /\ tVals["hue"] = 359
    /\ tVals["saturation"] = 0
    /\ tBack # <<>>
    /\ tBack["hue"] = 359

\* C12: when the dialog returns a colour c, pick_color runs update_color(c)
\* once on every panel, so that each shows the channels of c, and paints
\* the swatch with c; no panel's color_changed is delivered and
\* change_color_internally does not run.
C12_PickPushesSilently ==
    (last.op = "pick" /\ last.col # InvalidColor) =>
        /\ \A p \in PanelSet :
              upd[p] = 1 /\ emits[p] = 0 /\ PanelShows(p, last.col)
        /\ label = LabelOf(last.col)
        /\ coord = 0

C12_Witness ==
    /\ last.op = "pick"
    /\ last.col = QColorRgb(255, 0, 0)
    /\ label = <<255, 0, 0>>
    /\ \A p \in PanelSet : upd[p] = 1 /\ muted[p] > 0
    /\ fld["CMYK"]["cyan"].text = <<"0">>
    /\ fld["CMYK"]["magenta"].text = <<"2", "5", "5">>

\* what change_color_internally(c) alone makes of the current state
AfterPanelChanged(c) ==
    Run(World, <<CallColor("change_color_internally", "", c)>>)

\* C13: change_color_internally(c) records c as Final.color, paints the
\* swatch with c and does nothing else: it runs update_color on no panel,
\* emits nothing and changes no field.  Hence whenever it ran during an
\* event, Final.color is get_color() of the panel whose fields that event
\* was about, and the swatch shows it.
C13_PanelChangedOnlyRecords ==
    /\ \A p \in PanelSet :
          /\ AfterPanelChanged(GetColor(fld, p)).color = GetColor(fld, p)
          /\ AfterPanelChanged(GetColor(fld, p)).label
                = LabelOf(GetColor(fld, p))
          /\ AfterPanelChanged(GetColor(fld, p)).fld = fld
          /\ AfterPanelChanged(GetColor(fld, p)).blocked = blocked
          /\ AfterPanelChanged(GetColor(fld, p)).upd = ZeroCount
          /\ AfterPanelChanged(GetColor(fld, p)).emits = ZeroCount
          /\ AfterPanelChanged(GetColor(fld, p)).muted = ZeroCount
    /\ coord > 0 =>
          /\ color = GetColor(fld, last.panel)
          /\ label = LabelOf(color)
    /\ WasUserEdit => coord = 1

C13_Witness ==
    /\ WasUserEdit
    /\ last.panel = "CMYK"
    /\ coord = 1
    /\ color = QColorSetCmyk(0, 255, 0, 255)
    /\ label = <<0, 0, 0>>

\* C14: a valuer's signals are blocked only while its update_color runs:
\* between events no valuer is blocked; during an event no color_changed of
\* a valuer on which update_color ran was delivered; and a text change by
\* the user in a panel, which received a colour before, is delivered and
\* runs update_color on the other panels.
C14_BlockedOnlyDuringUpdate ==
    /\ \A p \in PanelSet : ~blocked[p]
    /\ \A p \in PanelSet : upd[p] > 0 => emits[p] = 0
    /\ WasUserEdit =>
          /\ emits[last.panel] = 1
          /\ muted[last.panel] = 0
          /\ \A q \in Others(last.panel) : upd[q] = 1

\* the HSV panel holds the hue -1 only from a colour it received; the user
\* then edits its value
C14_Witness ==
    /\ WasUserEdit
    /\ last.panel = "HSV"
    /\ last.key = "value"
    /\ fld["HSV"]["hue"].value = -1
    /\ emits["HSV"] = 1
    /\ upd["RGB"] = 1
    /\ muted["RGB"] > 0
    /\ upd["CMYK"] = 1

WasAcceptedEdit ==
    WasUserEdit /\ Bounder(last.panel, last.key, last.text)

\* the colour of the panel edited last, composed from the committed values
\* of its fields, the edited field contributing the converted text
ColorWithNew ==
    ModelGetColor(last.panel,
                  [k \in KeySet(last.panel) |->
                      IF k = last.key THEN Converter(last.text)
                      ELSE fld[last.panel][k].value])

\* C16: for a text the bounds predicate accepts, the field commits the
\* converted value before the panel emits: the colour the coordinator
\* records and the other panels show is composed with the new value of the
\* edited field, not with the value it had before.
C16_NotificationCarriesNewValue ==
    WasAcceptedEdit =>
        /\ fld[last.panel][last.key].value = Converter(last.text)
        /\ color = ColorWithNew
        /\ \A q \in Others(last.panel) : PanelShows(q, ColorWithNew)

C16_Witness ==
    /\ WasAcceptedEdit
    /\ last.panel = "RGB"
    /\ last.key = "green"
    /\ last.before.value = 0
    /\ Converter(last.text) = 255
    /\ color = QColorRgb(255, 255, 255)
    /\ color # ColorWithOld
    /\ fld["CMYK"]["magenta"].value = 0

\* C17: in the three-panel program a text change by the user in field f of
\* panel A, with all it sets off, leaves every other field of A as it was
\* (value, text, validity, border) and leaves f's text as typed.
C17_EditLeavesOwnPanel ==
    [][(events' = events + 1 /\ last'.op = "text") =>
          /\ \A k \in KeySet(last'.panel) \ {last'.key} :
                fld'[last'.panel][k] = fld[last'.panel][k]
          /\ fld'[last'.panel][last'.key].text = last'.text]_vars

\* "07" stays as typed in the RGB panel while the other panels follow
C17_Witness ==
    /\ WasUserEdit
    /\ last.panel = "RGB"
    /\ last.key = "red"
    /\ last.text = <<"0", "7">>
    /\ fld["RGB"]["red"].text = <<"0", "7">>
    /\ fld["RGB"]["red"].value = 7
    /\ upd["HSV"] = 1
    /\ upd["CMYK"] = 1
    /\ fld["CMYK"]["cyan"].value > 0

\* C18: between events Final.color is the colour the swatch displays.
C18_SwatchShowsRecordedColor == label = LabelOf(color)

\* C19: every field whose validity flag is true displays a text that the
\* converter reads as the committed value.
C19_ValidTextDenotesValue ==
    \A p \in PanelSet : \A k \in KeySet(p) :
        fld[p][k].bounded =>
            /\ PyInt(fld[p][k].text).ok
            /\ Converter(fld[p][k].text) = fld[p][k].value

\* a valid field showing a text other than str(value), kept while the user
\* edits its neighbour, and the other panels made to display what they hold
C19_Witness ==
    /\ fld["RGB"]["red"].bounded
    /\ fld["RGB"]["red"].text = <<"0", "7">>
    /\ fld["RGB"]["red"].value = 7
    /\ last.op = "text"
    /\ last.panel = "RGB"
    /\ last.key = "green"
    /\ upd["CMYK"] = 1
    /\ fld["CMYK"]["cyan"].bounded
    /\ fld["CMYK"]["cyan"].value > 0

Delivered == emits["RGB"] + emits["HSV"] + emits["CMYK"]

\* C15: every user event (text change, edit-completion, pick) sets off a
\* chain of handler calls that ends, leaving no call pending; the colour
\* does not go round the ring: within an event update_color runs at most
\* once on each panel, at most one color_changed is delivered, and never
\* one of a panel on which update_color ran.
C15_EveryEventSettles ==
    /\ [](/\ \A p \in PanelSet : upd[p] <= 1
          /\ Delivered <= 1
          /\ \A p \in PanelSet : upd[p] = 1 => emits[p] = 0)
    /\ (stack # <<>>) ~> (stack = <<>>)

\* an edit-completion that rewrote "07" as "7", emitted, and settled
C15_Witness ==
    /\ stack = <<>>
    /\ last.op = "finished"
    /\ last.before.text = <<"0", "7">>
    /\ fld[last.panel][last.key].text = <<"7">>
    /\ emits[last.panel] = 1
    /\ \A q \in Others(last.panel) : upd[q] = 1
    /\ coord = 1

====
